---- MODULE Spec2Model ----
(***************************************************************************)
(* did:web resolution (did-web/src/lib.rs) and the display of the Error    *)
(* enumeration (src/error.rs).                                             *)
(*                                                                         *)
(* Strings and byte vectors are sequences of one-character strings, so     *)
(* that split, join and replacen are computed and not assumed.  An         *)
(* Option is a sequence of length 0 (None) or 1 (Some).                    *)
(***************************************************************************)
EXTENDS Naturals, Sequences, FiniteSets

VARIABLES
    env,         \* Option: the process variable SSI__DID_WEB__FORCE_HTTP_FOR_HOSTNAMES
    env_at_new,  \* Option: the value env had when the resolver was constructed
    tokens,      \* the colon-separated tokens the identifier was written from
    did,         \* the identifier handed to did_web_url
    read,        \* Option: the value env had when did_web_url was called
    url,         \* Option: what did_web_url returned
    server,      \* the responder the requests reach
    call,        \* the resolution call in progress, or the last one made
    error,       \* Option: a value of the Error enumeration
    display,     \* Option: what formatting that value for display gave
    calls,       \* the resolution calls running concurrently on one resolver
    overlapped   \* whether a call began while another was in flight

vars == <<env, env_at_new, tokens, did, read, url, server, call, error, display,
          calls, overlapped>>

None == <<>>
Some(x) == <<x>>

(***************************************************************************)
(* Bounds.                                                                 *)
(***************************************************************************)
\* Path segments written after the domain of an identifier.
MaxSegments == 2
\* Path segments of the identifiers the resolver is called with.
MaxCallSegments == 1
\* The calls one resolver runs at the same time.
MaxCalls == 2

(***************************************************************************)
(* String literals.                                                        *)
(***************************************************************************)
STR_did == <<"d","i","d">>
STR_web == <<"w","e","b">>
STR_key == <<"k","e","y">>
STR_localhost == <<"l","o","c","a","l","h","o","s","t">>
STR_example_com == <<"e","x","a","m","p","l","e",".","c","o","m">>
STR_443 == <<"4","4","3">>
STR_80 == <<"8","0">>
STR_u == <<"u">>
STR_bob == <<"b","o","b">>
STR_well_known == <<".","w","e","l","l","-","k","n","o","w","n">>
STR_did_json == <<"/","d","i","d",".","j","s","o","n">>
STR_http == <<"h","t","t","p">>
STR_https == <<"h","t","t","p","s">>
STR_scheme_sep == <<":","/","/">>
STR_pct3A == <<"%","3","A">>
STR_colon == <<":">>
STR_comma == <<",">>
STR_slash == <<"/">>

(***************************************************************************)
(* str::split, [&str]::join, str::replacen.                                *)
(***************************************************************************)
starts_with(s, pat) ==
    /\ Len(s) >= Len(pat)
    /\ SubSeq(s, 1, Len(pat)) = pat

RECURSIVE split_from(_, _, _)
split_from(s, pat, cur) ==
    IF s = <<>> THEN <<cur>>
    ELSE IF starts_with(s, pat)
         THEN <<cur>> \o split_from(SubSeq(s, Len(pat) + 1, Len(s)), pat, <<>>)
         ELSE split_from(Tail(s), pat, Append(cur, Head(s)))

\* s.split(pat): the tokens between the occurrences of pat, at least one.
split(s, pat) == split_from(s, pat, <<>>)

RECURSIVE join(_, _)
\* parts.join(sep)
join(parts, sep) ==
    IF parts = <<>> THEN <<>>
    ELSE IF Len(parts) = 1 THEN parts[1]
    ELSE parts[1] \o sep \o join(Tail(parts), sep)

RECURSIVE replacen(_, _, _, _)
\* s.replacen(pat, to, count): the first count occurrences of pat replaced.
replacen(s, pat, to, count) ==
    IF s = <<>> \/ count = 0 THEN s
    ELSE IF starts_with(s, pat)
         THEN to \o replacen(SubSeq(s, Len(pat) + 1, Len(s)), pat, to, count - 1)
         ELSE <<Head(s)>> \o replacen(Tail(s), pat, to, count)

(***************************************************************************)
(* ssi_dids::did_resolve, as did-web uses it.                              *)
(***************************************************************************)
ERROR_INVALID_DID == <<"invalidDid">>
ERROR_NOT_FOUND == <<"notFound">>
TYPE_DID_LD_JSON == <<"application/did+ld+json">>

\* ResolutionMetadata::from_error
from_error(e) == [error |-> Some(e), content_type |-> None, property_set |-> None]

Ok(v) == [ok |-> TRUE, val |-> v]
Err(e) == [ok |-> FALSE, val |-> e]

(***************************************************************************)
(* did_web_url                                                             *)
(***************************************************************************)
\* valid_prefix without the check of the domain.
valid_prefix_any_domain(parts) ==
    /\ Len(parts) >= 3
    /\ parts[1] = STR_did
    /\ parts[2] = STR_web

\* The match on the first three tokens: "did", "web", a non-empty domain.
valid_prefix(parts) ==
    /\ Len(parts) >= 3
    /\ parts[1] = STR_did
    /\ parts[2] = STR_web
    /\ parts[3] # <<>>

\* path_of without the default segment.
path_of_no_default(rest) == join(rest, STR_slash)

\* The path of the tokens after the domain.
path_of(rest) ==
    IF rest # <<>> THEN join(rest, STR_slash) ELSE STR_well_known

\* The variable as it was when the resolver was constructed.
std_env_var_at_new == IF env_at_new = None THEN env ELSE env_at_new[1]

\* std::env::var("SSI__DID_WEB__FORCE_HTTP_FOR_HOSTNAMES"), read in the call.
std_env_var == env

\* The allow-list read from the process variable, "localhost" when unset.
force_http_for_hostnames(var) ==
    split(IF var = None THEN STR_localhost ELSE var[1], STR_comma)

\* proto_of comparing the whole domain, port included.
proto_of_whole_domain(domain_name, hostnames) ==
    IF \E i \in DOMAIN hostnames : domain_name = hostnames[i]
    THEN STR_http
    ELSE STR_https

\* http for a domain whose part before the first "%3A" is on the list.
proto_of(domain_name, hostnames) ==
    IF \E i \in DOMAIN hostnames :
           Head(split(domain_name, STR_pct3A)) = hostnames[i]
    THEN STR_http
    ELSE STR_https

\* format!("{}://{}/{}/did.json", proto, domain_name.replacen("%3A", ":", 1), path)
format_url(proto, domain_name, path) ==
    proto \o STR_scheme_sep \o replacen(domain_name, STR_pct3A, STR_colon, 1)
          \o STR_slash \o path \o STR_did_json

did_web_url(d) ==
    LET parts == split(d, STR_colon)
    IN  IF ~valid_prefix(parts)
        THEN Err(from_error(ERROR_INVALID_DID))
        ELSE Ok(format_url(proto_of(parts[3], force_http_for_hostnames(std_env_var)),
                           parts[3],
                           path_of(SubSeq(parts, 4, Len(parts)))))

(***************************************************************************)
(* The identifiers and settings the calls are made with.                   *)
(***************************************************************************)
Domains ==
    { STR_localhost,
      STR_example_com,
      STR_example_com \o STR_pct3A \o STR_443,
      STR_localhost \o STR_pct3A \o STR_80,
      STR_example_com \o STR_pct3A \o STR_443 \o STR_pct3A \o STR_80,
      STR_pct3A \o STR_80 }

Segments == { STR_u, STR_bob, STR_well_known, <<>> }

SeqsUpTo(S, n) == UNION { [1..k -> S] : k \in 0..n }

TokenSeqs ==
    LET firsts == { STR_did, <<>> }
        seconds == { STR_web, STR_key }
        thirds == Domains \cup { <<>> }
    IN  { <<a>> : a \in firsts }
        \cup { <<a, b>> : a \in firsts, b \in seconds }
        \cup { <<a, b, c>> \o p : a \in firsts, b \in seconds, c \in thirds,
                                  p \in SeqsUpTo(Segments, MaxSegments) }

EnvSettings ==
    { None,
      Some(STR_localhost),
      Some(STR_example_com),
      Some(STR_example_com \o STR_comma \o STR_localhost),
      Some(STR_example_com \o STR_pct3A \o STR_443),
      Some(<<>>) }

(***************************************************************************)
(* The responder and what the network can give back.                       *)
(***************************************************************************)
StatusOk == 200
StatusNotModified == 304
StatusForbidden == 403
StatusNotFound == 404
StatusInternalServerError == 500

Statuses ==
    { StatusOk, StatusNotModified, StatusForbidden, StatusNotFound,
      StatusInternalServerError }

\* http::StatusCode::is_success, is_client_error, is_server_error
is_success(status) == status \in 200..299
is_client_error(status) == status \in 400..499
is_server_error(status) == status \in 500..599

\* Response::error_for_status_ref: an error for a 4xx or a 5xx status.
error_for_status_ref(status) ==
    IF is_client_error(status) \/ is_server_error(status)
    THEN Err(status)
    ELSE Ok(status)

StatusText(status) ==
    CASE status = StatusOk -> "200 OK"
      [] status = StatusNotModified -> "304 Not Modified"
      [] status = StatusForbidden -> "403 Forbidden"
      [] status = StatusNotFound -> "404 Not Found"
      [] status = StatusInternalServerError -> "500 Internal Server Error"

\* The display of the reqwest error of a status.
status_error_to_string(status, u) ==
    <<"HTTP status ",
      IF is_client_error(status) THEN "client error" ELSE "server error",
      " (", StatusText(status), ") for url (">> \o u \o <<")">>

TransportErrors == { <<"dns error">>, <<"operation timed out">> }
BodyErrors == { <<"error decoding response body">> }

\* The documents the bytes can hold: { "id": <id> }.
DocIds == { "did:web:localhost", "did:web:example.com" }
DocBytes(id) == <<"{", "id:", id, "}">>
DID_URL == STR_http \o STR_scheme_sep \o STR_localhost \o STR_slash
               \o STR_well_known \o STR_did_json
DID_JSON == DocBytes("did:web:localhost")
MalformedBytes == <<"{", "id:", "did:web:localhost">>

Bodies ==
    { <<>>, DID_JSON, DocBytes("did:web:example.com"), MalformedBytes,
      <<"{", "}">>, <<"null">> }

RECURSIVE skip_whitespace(_)
\* The JSON parser skips the whitespace before a value.
skip_whitespace(bytes) ==
    IF bytes # <<>> /\ Head(bytes) = " " THEN skip_whitespace(Tail(bytes)) ELSE bytes

\* The parse of a Document from the bytes of a JSON value.
parse_document(b) ==
    IF \E id \in DocIds : b = DocBytes(id) THEN Ok([id |-> b[3]])
    ELSE IF b = <<>> THEN Err(<<"EOF while parsing a value">>)
    ELSE IF Head(b) # "{" THEN Err(<<"expected value">>)
    ELSE IF b[Len(b)] # "}" THEN Err(<<"EOF while parsing an object">>)
    ELSE Err(<<"missing field id">>)

\* serde_json::from_slice(&doc_data), whose Ok value becomes doc_opt: the
\* bytes are parsed as an Option<Document>, JSON null being None.
from_slice(bytes) ==
    LET b == skip_whitespace(bytes)
        d == parse_document(b)
    IN  IF b = <<"null">> THEN Ok(None)
        ELSE IF d.ok THEN Ok(Some(d.val))
        ELSE d

\* DocumentMetadata::default()
DocumentMetadata_default ==
    [created |-> None, updated |-> None, deactivated |-> None, property_set |-> None]

\* The servers: one that may answer anything, and web_server of the tests, which
\* serves one body at one URL and 404 elsewhere.
AnyServer == [fixed |-> FALSE, url |-> <<>>, body |-> <<>>]
web_server(u, body) == [fixed |-> TRUE, url |-> u, body |-> body]

Servers ==
    { AnyServer, web_server(DID_URL, DID_JSON), web_server(DID_URL, MalformedBytes) }

\* What sending the request can give: a transport error or a status.
SendOutcomes(srv, request) ==
    IF srv.fixed
    THEN { Ok(IF request.url = srv.url THEN StatusOk ELSE StatusNotFound) }
    ELSE { Err(e) : e \in TransportErrors } \cup { Ok(s) : s \in Statuses }

\* What reading the body can give: an error or the bytes.
BytesOutcomes(srv) ==
    IF srv.fixed
    THEN { Ok(srv.body) }
    ELSE { Err(e) : e \in BodyErrors } \cup { Ok(b) : b \in Bodies }

(***************************************************************************)
(* DIDWeb::resolve and DIDWeb::resolve_representation                      *)
(***************************************************************************)
Accepts == { None, Some(<<"application/did+json">>) }
Ops == { "resolve", "resolve_representation" }

idle_call ==
    [pc |-> "idle", op |-> "none", tokens |-> <<>>, did |-> <<>>, accept |-> None,
     read |-> None, url |-> None, sent |-> <<>>, send_err |-> None,
     status |-> None, body |-> None,
     rep |-> None, res |-> None]

\* resolve_from returning what it has when the parse fails.
resolve_from_best_effort(rep) ==
    [res_meta |-> [rep.res_meta EXCEPT !.content_type = None],
     doc_opt |-> IF rep.doc_data # <<>> /\ from_slice(rep.doc_data).ok
                 THEN from_slice(rep.doc_data).val
                 ELSE None,
     doc_meta_opt |-> rep.doc_meta_opt]

\* resolve_from without the clearing of content_type.
resolve_from_keeping_content_type(rep) ==
    IF rep.doc_data = <<>>
    THEN [res_meta |-> rep.res_meta, doc_opt |-> None, doc_meta_opt |-> rep.doc_meta_opt]
    ELSE LET parsed == from_slice(rep.doc_data)
         IN  IF ~parsed.ok
             THEN [res_meta |-> from_error(<<"JSON Error: ">> \o parsed.val),
                   doc_opt |-> None,
                   doc_meta_opt |-> None]
             ELSE [res_meta |-> rep.res_meta,
                   doc_opt |-> parsed.val,
                   doc_meta_opt |-> rep.doc_meta_opt]

\* resolve, after resolve_representation has returned rep.
resolve_from(rep) ==
    IF rep.doc_data = <<>>
    THEN [res_meta |-> [rep.res_meta EXCEPT !.content_type = None],
          doc_opt |-> None,
          doc_meta_opt |-> rep.doc_meta_opt]
    ELSE LET parsed == from_slice(rep.doc_data)
         IN  IF ~parsed.ok
             THEN [res_meta |-> from_error(<<"JSON Error: ">> \o parsed.val),
                   doc_opt |-> None,
                   doc_meta_opt |-> None]
             ELSE [res_meta |-> [rep.res_meta EXCEPT !.content_type = None],
                   doc_opt |-> parsed.val,
                   doc_meta_opt |-> rep.doc_meta_opt]

\* resolve_representation returns rep; a call of resolve goes on from it.
returned(c, rep) ==
    [c EXCEPT !.pc = "done",
              !.rep = Some(rep),
              !.res = IF c.op = "resolve" THEN Some(resolve_from(rep)) ELSE None]

\* input_metadata.accept, "application/json" when absent.
accept_of(accept) ==
    IF accept = None THEN <<"application/json">> ELSE accept[1]

\* resolve_representation up to the sending of the request.
begin(op, toks, accept) ==
    LET d == join(toks, STR_colon)
        u == did_web_url(d)
        c == [idle_call EXCEPT !.op = op, !.tokens = toks, !.did = d,
                               !.accept = accept, !.read = Some(env)]
    IN  IF ~u.ok
        THEN returned(c, [res_meta |-> u.val, doc_data |-> <<>>, doc_meta_opt |-> None])
        ELSE [c EXCEPT !.pc = "send",
                       !.url = Some(u.val),
                       !.sent = <<[url |-> u.val, accept |-> accept_of(accept)]>>]

\* send() failed and the request is sent once more.
on_send_err_retry(c, e) ==
    [c EXCEPT !.send_err = Some(e), !.sent = Append(c.sent, c.sent[Len(c.sent)])]

\* resolve_representation when send() failed.
on_send_err(c, e) ==
    returned([c EXCEPT !.send_err = Some(e)],
             [res_meta |-> from_error(<<"Error sending HTTP request (">>
                                          \o c.url[1] \o <<"): ">> \o e),
              doc_data |-> <<>>,
              doc_meta_opt |-> None])

\* The status is not looked at and the body is read.
on_response_any_status(c, status) ==
    [c EXCEPT !.status = Some(status), !.pc = "bytes"]

\* resolve_representation when send() gave a response: the check of its status.
on_response(c, status) ==
    LET c1 == [c EXCEPT !.status = Some(status)]
    IN  IF ~error_for_status_ref(status).ok
        THEN IF status = StatusNotFound
             THEN returned(c1, [res_meta |-> from_error(ERROR_NOT_FOUND),
                                doc_data |-> <<>>,
                                doc_meta_opt |-> Some(DocumentMetadata_default)])
             ELSE returned(c1, [res_meta |-> from_error(
                                    status_error_to_string(status, c.url[1])),
                                doc_data |-> <<>>,
                                doc_meta_opt |-> Some(DocumentMetadata_default)])
        ELSE [c1 EXCEPT !.pc = "bytes"]

\* resolve_representation from the answer to send() to the reading of the body.
on_send(c, outcome) ==
    IF ~outcome.ok THEN on_send_err(c, outcome.val) ELSE on_response(c, outcome.val)

\* resolve_representation from the answer to bytes() to its return.
on_bytes(c, outcome) ==
    LET c1 == [c EXCEPT !.body = Some(outcome)]
    IN  IF ~outcome.ok
        THEN returned(c1, [res_meta |-> from_error(<<"Error reading HTTP response: ">>
                                            \o outcome.val),
                           doc_data |-> <<>>,
                           doc_meta_opt |-> None])
        ELSE returned(c1, [res_meta |-> [error |-> None,
                                         content_type |-> Some(TYPE_DID_LD_JSON),
                                         property_set |-> None],
                           doc_data |-> outcome.val,
                           doc_meta_opt |-> Some(DocumentMetadata_default)])

(***************************************************************************)
(* The Error enumeration and its display (src/error.rs).                   *)
(***************************************************************************)
\* The variants that carry nothing.
UnitKinds ==
    { "InvalidSubject", "InvalidCriticalHeader", "UnknownCriticalHeader",
      "InvalidIssuer", "AlgorithmNotImplemented", "ProofTypeNotImplemented",
      "MissingAlgorithm", "AlgorithmMismatch", "UnsupportedAlgorithm",
      "KeyTypeNotImplemented", "MissingKey", "MissingPrivateKey",
      "MissingModulus", "MissingExponent", "MissingPrime",
      "MissingCredential", "MissingKeyParameters", "MissingProof",
      "MissingIssuanceDate", "MissingTypeVerifiableCredential",
      "MissingTypeVerifiablePresentation", "MissingIssuer",
      "MissingVerificationMethod", "Key", "TimeError", "URI",
      "InvalidContext", "MissingContext", "MissingDocumentId",
      "MissingProofSignature", "ExpiredProof", "FutureProof",
      "InvalidProofPurpose", "InvalidProofDomain", "InvalidSignature",
      "InvalidJWS", "MissingCredentialSchema", "UnsupportedProperty",
      "UnsupportedKeyType", "UnsupportedType", "UnsupportedProofPurpose",
      "UnsupportedCheck", "TooManyBlankNodes",
      "JWTCredentialInPresentation", "ExpectedUnencodedHeader",
      "ResourceNotFound", "InvalidProofTypeType", "InvalidKeyLength",
      "InconsistentDIDKey", "RingError", "__Nonexhaustive" }

\* The variants that wrap an error of another library.
WrappedKinds == { "KeyRejected", "FromUtf8", "ASN1Encode", "Base64", "Multibase", "JSON" }

\* The errors of the other libraries, each with what its own display gives.
External(type, text) == [type |-> type, display |-> <<text>>]

Externals ==
    { External("ring::error::KeyRejected", "InvalidEncoding"),
      External("ring::error::KeyRejected", "TooSmall"),
      External("ring::error::Unspecified", "ring::error::Unspecified"),
      External("std::string::FromUtf8Error", "invalid utf-8 sequence of 1 bytes from index 0"),
      External("std::string::FromUtf8Error", "incomplete utf-8 byte sequence from index 2"),
      External("simple_asn1::ASN1EncodeErr", "ASN1 object identifier has too few fields."),
      External("simple_asn1::ASN1EncodeErr", "First value in ASN1 OID is too big."),
      External("base64::DecodeError", "Invalid byte 61, offset 2."),
      External("base64::DecodeError", "Encoded text cannot have a 6-bit remainder."),
      External("multibase::Error", "Unknown base code: 1"),
      External("multibase::Error", "Invalid base string"),
      External("serde_json::Error", "expected value at line 1 column 1"),
      External("serde_json::Error", "EOF while parsing an object at line 1 column 1") }

Curves == { <<"P-384">>, <<"secp256k1">> }

unit_error(kind) == [kind |-> kind, inner |-> None]
CurveNotImplemented(curve) == [kind |-> "CurveNotImplemented", inner |-> Some(curve)]

\* The From conversions into Error.
from(e) ==
    CASE e.type = "base64::DecodeError" -> [kind |-> "Base64", inner |-> Some(e)]
      [] e.type = "multibase::Error" -> [kind |-> "Multibase", inner |-> Some(e)]
      [] e.type = "simple_asn1::ASN1EncodeErr" -> [kind |-> "ASN1Encode", inner |-> Some(e)]
      [] e.type = "serde_json::Error" -> [kind |-> "JSON", inner |-> Some(e)]
      [] e.type = "ring::error::KeyRejected" -> [kind |-> "KeyRejected", inner |-> Some(e)]
      [] e.type = "ring::error::Unspecified" -> unit_error("RingError")
      [] e.type = "std::string::FromUtf8Error" -> [kind |-> "FromUtf8", inner |-> Some(e)]

\* {:?} of a String: the string between double quotes.
STR_dquote == "<U+0022>"
debug_string(str) == <<STR_dquote>> \o str \o <<STR_dquote>>

\* unreachable!(): the thread panics.
Panic == Err(<<"internal error: entered unreachable code">>)

\* <Error as fmt::Display>::fmt
fmt(e) ==
    CASE
         e.kind = "InvalidSubject" -> Ok(<<"Invalid subject for JWT">>)
      [] e.kind = "InvalidCriticalHeader" -> Ok(<<"Invalid crit property in JWT header">>)
      [] e.kind = "UnknownCriticalHeader" -> Ok(<<"Unknown critical header name in JWT header">>)
      [] e.kind = "InvalidIssuer" -> Ok(<<"Invalid issuer for JWT">>)
      [] e.kind = "MissingKey" -> Ok(<<"JWT key not found">>)
      [] e.kind = "MissingPrivateKey" -> Ok(<<"Missing private key parametern JWK">>)
      [] e.kind = "MissingModulus" -> Ok(<<"Missing modulus in RSA key">>)
      [] e.kind = "MissingExponent" -> Ok(<<"Missing modulus in RSA key">>)
      [] e.kind = "MissingPrime" -> Ok(<<"Missing prime factor in RSA key">>)
      [] e.kind = "MissingKeyParameters" -> Ok(<<"JWT key parameters not found">>)
      [] e.kind = "MissingProof" -> Ok(<<"Missing proof property">>)
      [] e.kind = "MissingIssuanceDate" -> Ok(<<"Missing issuance date">>)
      [] e.kind = "MissingTypeVerifiableCredential" -> Ok(<<"Missing type VerifiableCredential">>)
      [] e.kind = "MissingTypeVerifiablePresentation" -> Ok(<<"Missing type VerifiablePresentation">>)
      [] e.kind = "MissingIssuer" -> Ok(<<"Missing issuer property">>)
      [] e.kind = "MissingVerificationMethod" -> Ok(<<"Missing proof verificationMethod">>)
      [] e.kind = "MissingCredential" -> Ok(<<"Verifiable credential not found in JWT">>)
      [] e.kind = "Key" -> Ok(<<"problem with JWT key">>)
      [] e.kind = "AlgorithmNotImplemented" -> Ok(<<"JWA algorithm not implemented">>)
      [] e.kind = "ProofTypeNotImplemented" -> Ok(<<"Linked Data Proof type not implemented">>)
      [] e.kind = "MissingAlgorithm" -> Ok(<<"Missing algorithm in JWT">>)
      [] e.kind = "AlgorithmMismatch" -> Ok(<<"Algorithm in JWS header does not match JWK">>)
      [] e.kind = "UnsupportedAlgorithm" -> Ok(<<"Unsupported algorithm">>)
      [] e.kind = "KeyTypeNotImplemented" -> Ok(<<"Key type not implemented">>)
      [] e.kind = "TimeError" -> Ok(<<"Unable to convert date/time">>)
      [] e.kind = "InvalidContext" -> Ok(<<"Invalid context">>)
      [] e.kind = "MissingContext" -> Ok(<<"Missing context">>)
      [] e.kind = "MissingDocumentId" -> Ok(<<"Missing document ID">>)
      [] e.kind = "MissingProofSignature" -> Ok(<<"Missing JWS in proof">>)
      [] e.kind = "ExpiredProof" -> Ok(<<"Expired proof">>)
      [] e.kind = "FutureProof" -> Ok(<<"Proof creation time is in the future">>)
      [] e.kind = "InvalidSignature" -> Ok(<<"Invalid Signature">>)
      [] e.kind = "InvalidJWS" -> Ok(<<"Invalid JWS">>)
      [] e.kind = "InvalidProofPurpose" -> Ok(<<"Invalid proof purpose">>)
      [] e.kind = "InvalidProofDomain" -> Ok(<<"Invalid proof domain">>)
      [] e.kind = "MissingCredentialSchema" -> Ok(<<"Missing credential schema for ZKP">>)
      [] e.kind = "UnsupportedProperty" -> Ok(<<"Unsupported property for LDP">>)
      [] e.kind = "UnsupportedKeyType" -> Ok(<<"Unsupported key type for did:key">>)
      [] e.kind = "TooManyBlankNodes" -> Ok(<<"Multiple blank nodes not supported. Either credential or credential subject must have id property. Presentation must have id property.">>)
      [] e.kind = "UnsupportedType" -> Ok(<<"Unsupported type for LDP">>)
      [] e.kind = "UnsupportedProofPurpose" -> Ok(<<"Unsupported proof purpose">>)
      [] e.kind = "UnsupportedCheck" -> Ok(<<"Unsupported check">>)
      [] e.kind = "JWTCredentialInPresentation" -> Ok(<<"Unsupported JWT VC in VP">>)
      [] e.kind = "ExpectedUnencodedHeader" -> Ok(<<"Expected unencoded JWT header">>)
      [] e.kind = "ResourceNotFound" -> Ok(<<"Resource not found">>)
      [] e.kind = "InvalidProofTypeType" -> Ok(<<"Invalid ProofType type">>)
      [] e.kind = "InvalidKeyLength" -> Ok(<<"Invalid key length">>)
      [] e.kind = "InconsistentDIDKey" -> Ok(<<"Inconsistent DID Key">>)
      [] e.kind = "URI" -> Ok(<<"Invalid URI">>)
      [] e.kind = "RingError" -> Ok(<<"Crypto error">>)
      [] e.kind = "CurveNotImplemented" ->
             Ok(<<"Curve not implemented: '">> \o debug_string(e.inner[1]) \o <<"'">>)
      [] e.kind = "KeyRejected" -> Ok(e.inner[1].display)
      [] e.kind = "Base64" -> Ok(e.inner[1].display)
      [] e.kind = "Multibase" -> Ok(e.inner[1].display)
      [] e.kind = "ASN1Encode" -> Ok(e.inner[1].display)
      [] e.kind = "JSON" -> Ok(e.inner[1].display)
      [] OTHER -> Panic

\* String::from(err): format!("{}", err)
string_from(e) == fmt(e)

(***************************************************************************)
(* Specifications.                                                         *)
(***************************************************************************)
NoUrlCall == tokens = <<>> /\ did = <<>> /\ read = None /\ url = None
NoCall == call = idle_call /\ server = AnyServer
NoError == error = None /\ display = None
NoConcurrentCalls == calls = <<>> /\ overlapped = FALSE

\* did_web_url as a function of the identifier and the setting.
InitUrl ==
    /\ env \in EnvSettings
    /\ env_at_new = None
    /\ tokens \in TokenSeqs
    /\ did = join(tokens, STR_colon)
    /\ read = None
    /\ url = None
    /\ NoCall
    /\ NoError
    /\ NoConcurrentCalls

CallDidWebUrl ==
    /\ url = None
    /\ read' = Some(env)
    /\ url' = Some(did_web_url(did))
    /\ UNCHANGED <<env, env_at_new, tokens, did, server, call, error, display, calls, overlapped>>

NextUrl == CallDidWebUrl

SpecUrl == InitUrl /\ [][NextUrl]_vars

\* One resolver, called again and again, one call at a time.
CallTokenSeqs == { ts \in TokenSeqs : Len(ts) <= 3 + MaxCallSegments }

Init ==
    /\ env \in EnvSettings
    /\ env_at_new = Some(env)
    /\ server \in Servers
    /\ call = idle_call
    /\ NoUrlCall
    /\ NoError
    /\ NoConcurrentCalls

Begin ==
    /\ call.pc = "idle"
    /\ \E op \in Ops, toks \in CallTokenSeqs, accept \in Accepts :
           call' = begin(op, toks, accept)
    /\ UNCHANGED <<env, env_at_new, tokens, did, read, url, server, error, display, calls, overlapped>>

SendCompletes ==
    /\ call.pc = "send"
    /\ \E outcome \in SendOutcomes(server, call.sent[Len(call.sent)]) :
           call' = on_send(call, outcome)
    /\ UNCHANGED <<env, env_at_new, tokens, did, read, url, server, error, display, calls, overlapped>>

BytesComplete ==
    /\ call.pc = "bytes"
    /\ \E outcome \in BytesOutcomes(server) :
           call' = on_bytes(call, outcome)
    /\ UNCHANGED <<env, env_at_new, tokens, did, read, url, server, error, display, calls, overlapped>>

\* The caller takes the result; the resolver is ready for the next call.
Return ==
    /\ call.pc = "done"
    /\ call' = idle_call
    /\ UNCHANGED <<env, env_at_new, tokens, did, read, url, server, error, display, calls, overlapped>>

Next == Begin \/ SendCompletes \/ BytesComplete \/ Return

Spec == Init /\ [][Next]_vars

\* One resolver, the setting changed by the process between its calls.
PolicyTokenSeqs == { ts \in TokenSeqs : Len(ts) <= 3 }

InitEnv ==
    /\ env \in EnvSettings
    /\ env_at_new = None
    /\ NoUrlCall
    /\ NoCall
    /\ NoError
    /\ NoConcurrentCalls

\* DIDWeb::new_with_default_http_client or DIDWeb::new_with_http_client
new_with_http_client ==
    /\ env_at_new = None
    /\ env_at_new' = Some(env)
    /\ UNCHANGED <<env, tokens, did, read, url, server, call, error, display, calls, overlapped>>

\* The process sets or removes the variable.
SetEnv ==
    /\ \E e \in EnvSettings \ { env } : env' = e
    /\ UNCHANGED <<env_at_new, tokens, did, read, url, server, call, error, display, calls, overlapped>>

\* A resolution call, up to the URL it computes.
ResolveCall ==
    /\ env_at_new # None
    /\ \E toks \in PolicyTokenSeqs :
           /\ tokens' = toks
           /\ did' = join(toks, STR_colon)
           /\ url' = Some(did_web_url(join(toks, STR_colon)))
    /\ read' = Some(env)
    /\ UNCHANGED <<env, env_at_new, server, call, error, display, calls, overlapped>>

NextEnv == new_with_http_client \/ SetEnv \/ ResolveCall

SpecEnv == InitEnv /\ [][NextEnv]_vars

\* Values of Error, made and formatted.
InitError ==
    /\ env = None
    /\ env_at_new = None
    /\ NoUrlCall
    /\ NoCall
    /\ NoError
    /\ NoConcurrentCalls

MakeError ==
    /\ error = None
    /\ \E e \in { unit_error(k) : k \in UnitKinds }
                  \cup { CurveNotImplemented(c) : c \in Curves } :
           error' = Some(e)
    /\ UNCHANGED <<env, env_at_new, tokens, did, read, url, server, call, display, calls, overlapped>>

ConvertError ==
    /\ error = None
    /\ \E e \in Externals : error' = Some(from(e))
    /\ UNCHANGED <<env, env_at_new, tokens, did, read, url, server, call, display, calls, overlapped>>

Format ==
    /\ error # None
    /\ display = None
    /\ display' = Some(fmt(error[1]))
    /\ UNCHANGED <<env, env_at_new, tokens, did, read, url, server, call, error, calls, overlapped>>

IntoString ==
    /\ error # None
    /\ display = None
    /\ display' = Some(string_from(error[1]))
    /\ UNCHANGED <<env, env_at_new, tokens, did, read, url, server, call, error, calls, overlapped>>

NextError == MakeError \/ ConvertError \/ Format \/ IntoString

SpecError == InitError /\ [][NextError]_vars

\* One resolver shared by several calls, their steps interleaved: each
\* suspension point (send().await, bytes().await) ends a step.  The calls are
\* numbered in the order they begin.
CallIds == 1..MaxCalls

ConcInputs ==
    { [op |-> "resolve", tokens |-> <<STR_did, STR_web, STR_localhost>>,
       accept |-> None],
      [op |-> "resolve_representation",
       tokens |-> <<STR_did, STR_web, STR_example_com, STR_u>>,
       accept |-> Some(<<"application/did+json">>)],
      [op |-> "resolve", tokens |-> <<STR_did, STR_key, STR_localhost>>,
       accept |-> None] }

InFlight(c) == c.pc \in { "send", "bytes" }

\* The greatest of a non-empty set of call numbers.
Latest(S) == CHOOSE j \in S : \A k \in S : k <= j

\* The url kept in the resolver, where every call that computes one overwrites
\* it: a call reads the url of the latest call number that has one.
locals_sharing_url(cs, i) ==
    LET have == { j \in DOMAIN cs : cs[j].url # None }
    IN  IF have = {} THEN cs[i] ELSE [cs[i] EXCEPT !.url = cs[Latest(have)].url]

\* The state a call works on: the arguments and local variables of its own
\* future (did, url, accept, resp, doc_representation); of the resolver it
\* reads the HTTP client through &self, and the resolver has no other field.
locals(cs, i) == cs[i]

InitConc ==
    /\ env = None
    /\ env_at_new = Some(env)
    /\ server \in Servers
    /\ calls = [i \in CallIds |-> idle_call]
    /\ overlapped = FALSE
    /\ call = idle_call
    /\ NoUrlCall
    /\ NoError

CallBegins ==
    /\ \E i \in CallIds, inp \in ConcInputs :
           /\ calls[i].pc = "idle"
           /\ \A j \in 1..(i - 1) : calls[j].pc # "idle"
           /\ calls' = [calls EXCEPT ![i] = begin(inp.op, inp.tokens, inp.accept)]
           /\ overlapped' = (overlapped \/ \E j \in CallIds \ { i } : InFlight(calls[j]))
    /\ UNCHANGED <<env, env_at_new, tokens, did, read, url, server, call, error, display>>

CallSendCompletes ==
    /\ \E i \in CallIds :
           /\ calls[i].pc = "send"
           /\ \E outcome \in SendOutcomes(server, calls[i].sent[Len(calls[i].sent)]) :
                  calls' = [calls EXCEPT ![i] = on_send(locals(calls, i), outcome)]
    /\ UNCHANGED <<env, env_at_new, tokens, did, read, url, server, call, error, display,
                   overlapped>>

CallBytesComplete ==
    /\ \E i \in CallIds :
           /\ calls[i].pc = "bytes"
           /\ \E outcome \in BytesOutcomes(server) :
                  calls' = [calls EXCEPT ![i] = on_bytes(locals(calls, i), outcome)]
    /\ UNCHANGED <<env, env_at_new, tokens, did, read, url, server, call, error, display,
                   overlapped>>

NextConc == CallBegins \/ CallSendCompletes \/ CallBytesComplete

SpecConc == InitConc /\ [][NextConc]_vars

(***************************************************************************)
(* What the claims say, in terms of the tokens an identifier was written   *)
(* from and of the text of the setting.                                    *)
(***************************************************************************)
\* The place of the first occurrence of pat in s, 0 when there is none.
FirstIndexOf(s, pat) ==
    LET at == { i \in 1..Len(s) :
                  /\ i + Len(pat) - 1 <= Len(s)
                  /\ SubSeq(s, i, i + Len(pat) - 1) = pat }
    IN  IF at = {} THEN 0 ELSE CHOOSE i \in at : \A j \in at : i <= j

\* The domain up to its first "%3A".
HostOnly(domain) ==
    LET i == FirstIndexOf(domain, STR_pct3A)
    IN  IF i = 0 THEN domain ELSE SubSeq(domain, 1, i - 1)

\* The domain with its first "%3A" replaced by ":".
DecodedDomain(domain) ==
    LET i == FirstIndexOf(domain, STR_pct3A)
    IN  IF i = 0 THEN domain
        ELSE SubSeq(domain, 1, i - 1) \o STR_colon \o SubSeq(domain, i + 3, Len(domain))

RECURSIVE SlashJoined(_)
SlashJoined(ts) ==
    IF Len(ts) = 1 THEN ts[1]
    ELSE SlashJoined(SubSeq(ts, 1, Len(ts) - 1)) \o STR_slash \o ts[Len(ts)]

\* The tokens after the domain joined with "/", ".well-known" when there are none.
PathText(ts) ==
    IF Len(ts) = 3 THEN STR_well_known ELSE SlashJoined(SubSeq(ts, 4, Len(ts)))

\* did:web:<domain>[:<segment>...] with a non-empty domain.
WellFormed(ts) ==
    /\ Len(ts) >= 3
    /\ ts[1] = STR_did
    /\ ts[2] = STR_web
    /\ ts[3] # <<>>

\* The entries of the comma-delimited allow-list a setting stands for.
AllowList(setting) ==
    LET text == IF setting = None THEN STR_localhost ELSE setting[1]
        n == Len(text)
    IN  { SubSeq(text, i, j) : <<i, j>> \in
            { ij \in (1..(n + 1)) \X (0..n) :
                /\ ij[1] <= ij[2] + 1
                /\ (ij[1] = 1 \/ text[ij[1] - 1] = ",")
                /\ (ij[2] = n \/ text[ij[2] + 1] = ",")
                /\ \A k \in ij[1]..ij[2] : text[k] # "," } }

ExampleTokens ==
    <<STR_did, STR_web, STR_example_com \o STR_pct3A \o STR_443, STR_u, STR_bob>>
ExampleUrl ==
    STR_https \o STR_scheme_sep \o STR_example_com \o STR_colon \o STR_443
        \o STR_slash \o STR_u \o STR_slash \o STR_bob \o STR_did_json

\* C1: for every identifier did:web:<domain>[:<segment>...] with a non-empty
\* domain, did_web_url returns <protocol>://<decoded-domain>/<path>/did.json,
\* the domain with its first "%3A" replaced by ":", the path the tokens after
\* the domain joined with "/" or ".well-known" when there are none; under the
\* default setting did:web:example.com%3A443:u:bob gives
\* https://example.com:443/u/bob/did.json.
C1_UrlShape ==
    (url # None /\ WellFormed(tokens)) =>
        /\ url[1].ok
        /\ \E proto \in { STR_http, STR_https } :
               url[1].val = proto \o STR_scheme_sep \o DecodedDomain(tokens[3])
                                 \o STR_slash \o PathText(tokens) \o STR_did_json
        /\ SubSeq(url[1].val, Len(url[1].val) - 8, Len(url[1].val)) = STR_did_json
        /\ (tokens = ExampleTokens /\ env = None) => url[1].val = ExampleUrl

C1_Witness ==
    /\ url # None
    /\ tokens = ExampleTokens
    /\ env = None
    /\ url[1] = Ok(ExampleUrl)

\* C3: did_web_url selects http if and only if the part of the domain before
\* its first "%3A" equals an entry of the comma-delimited allow-list (the one
\* entry localhost when the setting is absent), and https otherwise, whatever
\* the port and the path segments.
C3_ProtocolByHostname ==
    (url # None /\ WellFormed(tokens)) =>
        /\ url[1].ok
        /\ IF HostOnly(tokens[3]) \in AllowList(read[1])
           THEN starts_with(url[1].val, STR_http \o STR_scheme_sep)
           ELSE starts_with(url[1].val, STR_https \o STR_scheme_sep)

C3_Witness ==
    /\ url # None
    /\ env = None
    /\ tokens = <<STR_did, STR_web, STR_localhost \o STR_pct3A \o STR_80, STR_u>>
    /\ url[1].ok
    /\ starts_with(url[1].val, STR_http \o STR_scheme_sep \o STR_localhost \o STR_colon)

\* The call has returned.
Done == call.pc = "done"
Rep == call.rep[1]
Res == call.res[1]

\* C2: for every identifier whose first two tokens are not "did" and "web", or
\* whose domain is missing or empty, resolve_representation returns the
\* InvalidDID error with an empty body and no document metadata, and no
\* request has been issued.
C2_InvalidDidBeforeNetwork ==
    (call.pc # "idle" /\ ~WellFormed(call.tokens)) =>
        /\ Done
        /\ call.sent = <<>>
        /\ Rep.res_meta.error = Some(ERROR_INVALID_DID)
        /\ Rep.doc_data = <<>>
        /\ Rep.doc_meta_opt = None

C2_Witness ==
    /\ Done
    /\ call.op = "resolve_representation"
    /\ call.tokens = <<STR_did, STR_web, <<>>, STR_u>>
    /\ Rep.res_meta.error = Some(ERROR_INVALID_DID)
    /\ call.sent = <<>>

\* The one attempt failed in transport: in sending, or in reading the body.
TransportFailed ==
    \/ call.send_err # None
    \/ (call.body # None /\ ~call.body[1].ok)

\* C4, as claimed: a 404 yields NotFound, an empty body and the default
\* document metadata; any other status that is not a success yields an error
\* that is not NotFound, an empty body and the default document metadata
\* (the transport having delivered the response).
C4_Claim_NonSuccessStatusIsError ==
    (Done /\ ~TransportFailed /\ call.status # None /\ ~is_success(call.status[1])) =>
        /\ Rep.res_meta.error # None
        /\ (Rep.res_meta.error = Some(ERROR_NOT_FOUND))
               <=> (call.status[1] = StatusNotFound)
        /\ Rep.doc_data = <<>>
        /\ Rep.doc_meta_opt = Some(DocumentMetadata_default)

\* C5: a call issues at most one GET request; when that attempt fails in
\* transport (sending, or reading the body) the call returns at once with an
\* error in the resolution metadata, an empty body and no document metadata.
C5_OneRequestNoRetry ==
    /\ Len(call.sent) <= 1
    /\ TransportFailed =>
           /\ Done
           /\ Len(call.sent) = 1
           /\ Rep.res_meta.error # None
           /\ Rep.doc_data = <<>>
           /\ Rep.doc_meta_opt = None
           /\ call.op = "resolve" =>
                  /\ Res.res_meta.error = Rep.res_meta.error
                  /\ Res.doc_opt = None
                  /\ Res.doc_meta_opt = None

C5_Witness ==
    /\ Done
    /\ call.send_err # None
    /\ Len(call.sent) = 1
    /\ call.op = "resolve"
    /\ Res.res_meta.error # None

\* C6: with a responder that serves a valid document at one URL and 404
\* elsewhere, a call whose identifier gives that URL returns no error, the
\* bytes unchanged with the default document metadata and (resolve) the
\* document those bytes parse to; a call whose well-formed identifier gives
\* another URL returns NotFound and no document.
C6_FixedResponder ==
    (Done /\ server.fixed /\ server.body = DID_JSON /\ WellFormed(call.tokens)) =>
        IF call.url[1] = server.url
        THEN /\ Rep.res_meta.error = None
             /\ Rep.doc_data = DID_JSON
             /\ Rep.doc_meta_opt = Some(DocumentMetadata_default)
             /\ call.op = "resolve" =>
                    /\ Res.res_meta.error = None
                    /\ Res.doc_opt = Some([id |-> "did:web:localhost"])
        ELSE /\ Rep.res_meta.error = Some(ERROR_NOT_FOUND)
             /\ Rep.doc_data = <<>>
             /\ call.op = "resolve" =>
                    /\ Res.res_meta.error = Some(ERROR_NOT_FOUND)
                    /\ Res.doc_opt = None

C6_Witness ==
    /\ Done
    /\ server = web_server(DID_URL, DID_JSON)
    /\ call.op = "resolve"
    /\ call.tokens = <<STR_did, STR_web, STR_localhost>>
    /\ Res.res_meta.error = None
    /\ Res.doc_opt = Some([id |-> "did:web:localhost"])

\* C7: whatever the outcome of resolve, the resolution metadata it returns has
\* no content_type; whenever resolve_representation returns without error its
\* content_type is application/did+ld+json.
C7_ContentType ==
    Done =>
        /\ call.op = "resolve" => Res.res_meta.content_type = None
        /\ Rep.res_meta.error = None =>
               Rep.res_meta.content_type = Some(TYPE_DID_LD_JSON)

C7_Witness ==
    /\ Done
    /\ call.op = "resolve"
    /\ Rep.res_meta.error = None
    /\ Rep.res_meta.content_type = Some(TYPE_DID_LD_JSON)
    /\ Res.doc_opt # None
    /\ Res.res_meta.content_type = None

CallMade == <<tokens, did, read, url>>' # <<tokens, did, read, url>>

C10_Claim_DisplayNeverFails ==
    (display # None /\ error[1].kind # "__Nonexhaustive") =>
        /\ display[1].ok
        /\ display[1].val # <<>>
        /\ error[1].kind \in WrappedKinds =>
               display[1].val = error[1].inner[1].display

\* What a call gives when it runs alone: its own identifier, operation and
\* accept preference, and the answers the responder gave to it, put through
\* resolve_representation and resolve from the start.
RunAlone(c) ==
    LET b == begin(c.op, c.tokens, c.accept)
        s == IF b.pc = "send" /\ (c.send_err # None \/ c.status # None)
             THEN on_send(b, IF c.send_err # None THEN Err(c.send_err[1])
                             ELSE Ok(c.status[1]))
             ELSE b
    IN  IF s.pc = "bytes" /\ c.body # None THEN on_bytes(s, c.body[1]) ELSE s

C12_Claim_AbsentDocumentHasError ==
    (Done /\ call.op = "resolve") =>
        /\ Rep.doc_data = <<>> =>
               /\ Res.doc_opt = None
               /\ Res.res_meta = Rep.res_meta
               /\ Res.doc_meta_opt = Rep.doc_meta_opt
               /\ Rep.res_meta.error # None
        /\ Res.doc_opt = None => Res.res_meta.error # None

====
